---------------------------- MODULE Spec2Model ----------------------------
(***************************************************************************)
(* Partitioned key-range scanners of the repository:                       *)
(*   - scan-for-account-attributes.py  (parallel_scan, scan_key_range,     *)
(*     scan_page, Backoff, generate_key_ranges)                            *)
(*   - consolidate_duplicated_ea_licenses.py (parallel_fetch_licenses,     *)
(*     fetch_licenses_by_role_and_key_range, generate_key_ranges,          *)
(*     process_account_licenses, main)                                     *)
(*                                                                         *)
(* A record of the remote collection is represented by its key.  The key   *)
(* space [MIN_KEY, MAX_KEY] is scaled down from [0, 2**63 - 1] and the     *)
(* fixed page size of the license scanner from 100 to LICENSE_COUNT.       *)
(***************************************************************************)
EXTENDS Integers, Sequences, FiniteSets, TLC

\* ---------------------------------------------------------------- bounds
MIN_KEY == 0
\* MAX_KEY = 2**63 - 1 in both scripts; scaled down.
MAX_KEY == 4
\* largest --partitions value explored (the scripts' default is 10)
MaxPartitions == 3
\* largest --count value explored by the account scanner (the CLI allows 1..100)
MaxCount == 2
\* "count": 100 and "len(licenses) < 100" of the license scanner; scaled down.
LICENSE_COUNT == 2
\* Backoff.__init__ default
max_tries == 10
\* BATCH_SIZE = 50 of the consolidation script; scaled down.
BATCH_SIZE == 1
\* most licenses the license scan hands to the consolidation pass
MaxLicenses == 3

\* most monitor_queue threads main starts (one per event argument)
MaxThreads == 3
\* largest --max-events value explored (the default is 50)
MaxEvents == 2

Keys == MIN_KEY..MAX_KEY

\* --count values outside the range main accepts, next to 1..MaxCount
InvalidCounts == {0, 101}

\* Backoff.__init__ arguments explored: the defaults (100 ms, 30000 ms) and a
\* smaller pair
InitialDelays == {100, 7}
MaxDelays == {30000, 1000}

\* values of "time.time() % 1" in thousandths of a second, from 0 to the
\* largest value below 1
TimeFractions == {0, 250, 500, 750, 999}

\* key spaces [min_key, max_key] and partition counts the partitioning
\* algorithm is applied to on its own
KeySpaceMins == {0, 1}
KeySpaceMaxs == 995..1003
PartitionCounts == 1..5

\* accountKey values and userKeys lists of the licenses handed to the
\* consolidation: no members, a single member, disjoint and overlapping lists
AccountKeys == {"a1", "a2"}
UserLists == {<<>>, <<4>>, <<1, 2>>, <<3, 4>>, <<2, 3, 4>>}

\* outcomes of one HTTP request: a status code, or 0 for a transport-level
\* error (requests.exceptions.RequestException without a response)
TRANSPORT_ERROR == 0
Responses == {200, 404, 500, TRANSPORT_ERROR}

\* what the endpoint answered (section 6 of the specification): 2xx success,
\* 4xx client error, 5xx or transport failure
ResponseClass(status) ==
    IF status = 200 THEN "ok"
    ELSE IF status \in 400..499 THEN "client"
    ELSE "retryable"

\* ------------------------------------------------------------ pure helpers
RECURSIVE SortedSeq(_)
\* the keys of S in ascending order (the endpoint returns key-ordered pages)
SortedSeq(S) ==
    IF S = {} THEN <<>>
    ELSE LET m == CHOOSE x \in S : \A y \in S : x <= y
         IN  <<m>> \o SortedSeq(S \ {m})

Take(s, n) == IF Len(s) <= n THEN s ELSE SubSeq(s, 1, n)

\* The page the endpoint returns for the params scan_page /
\* fetch_licenses_by_role_and_key_range build: the first cnt records, in key
\* order, whose key lies within the requested bounds.
ServerPage(data, startKey, startInclusive, endKey, endInclusive, cnt) ==
    LET lowOk(k)  == IF startInclusive THEN startKey <= k ELSE startKey < k
        highOk(k) == IF endInclusive THEN k <= endKey ELSE k < endKey
    IN  Take(SortedSeq({k \in data : lowOk(k) /\ highOk(k)}), cnt)

\* generate_key_ranges with the "- 1" of the window end left out
generate_key_ranges_no_minus_one(n) ==
    LET key_range == MAX_KEY - MIN_KEY
        partition_size == key_range \div n
    IN  [j \in 1..n |->
            LET i == j - 1
                start == MIN_KEY + (i * partition_size)
                end == IF i < n - 1
                       THEN MIN_KEY + ((i + 1) * partition_size)
                       ELSE MAX_KEY
            IN  <<start, end>>]

\* the partitioning with the partition size rounded up instead of down
partition_ranges_ceil(min_key, max_key, n) ==
    LET key_range == max_key - min_key
        partition_size == (key_range + n - 1) \div n
    IN  [j \in 1..n |->
            LET i == j - 1
                start == min_key + (i * partition_size)
                end == IF i < n - 1
                       THEN min_key + ((i + 1) * partition_size - 1)
                       ELSE max_key
            IN  <<start, end>>]

\* the partitioning with key_range taken as the number of keys
\* (max_key - min_key + 1)
partition_ranges_plus_one(min_key, max_key, n) ==
    LET key_range == max_key - min_key + 1
        partition_size == key_range \div n
    IN  [j \in 1..n |->
            LET i == j - 1
                start == min_key + (i * partition_size)
                end == IF i < n - 1
                       THEN min_key + ((i + 1) * partition_size - 1)
                       ELSE max_key
            IN  <<start, end>>]

\* The body of generate_key_ranges for n >= 1, with the module constants
\* MIN_KEY and MAX_KEY it reads as parameters; element i+1 of the result is
\* the tuple the code appends for loop index i.
partition_ranges(min_key, max_key, n) ==
    LET key_range == max_key - min_key
        partition_size == key_range \div n
    IN  [j \in 1..n |->
            LET i == j - 1
                start == min_key + (i * partition_size)
                end == IF i < n - 1
                       THEN min_key + ((i + 1) * partition_size - 1)
                       ELSE max_key
            IN  <<start, end>>]

\* generate_key_ranges(partitions) for partitions >= 1
generate_key_ranges(n) == partition_ranges(MIN_KEY, MAX_KEY, n)

\* the loop "for i in range(partitions)" runs for no i when partitions < 0
KeyRanges(n) == IF n >= 1 THEN generate_key_ranges(n) ELSE <<>>

\* the delay without the cap of max_delay_ms
Backoff_delay_uncapped(initial, maxd, t) == initial * (2 ^ (t - 1))

\* Backoff.backoff: "delay = min(initial_delay_ms * (2 ** (tries - 1)),
\* max_delay_ms)" with tries already incremented
Backoff_delay(initial, maxd, t) ==
    IF initial * (2 ^ (t - 1)) <= maxd THEN initial * (2 ^ (t - 1)) ELSE maxd

\* Backoff.backoff: "jitter = delay * 0.1; actual_delay = delay + (jitter *
\* (2 * (0.5 - (time.time() % 1))))", in units of 1/10000 ms, with
\* time.time() % 1 = f / 1000
Backoff_actual_delay(d, f) == d * 10000 + d * (2 * (500 - f))

\* Backoff.backoff raising one call too early (">=" for ">")
Backoff_backoff_early(t) ==
    [tries |-> t + 1, raised |-> (t + 1) >= max_tries]

\* Backoff.backoff: tries += 1, raise when tries > max_tries, else sleep
Backoff_backoff(t) ==
    [tries |-> t + 1, raised |-> (t + 1) > max_tries]

\* main rejecting only a count above 100
count_invalid_no_lower(c) == c > 100

\* main lines 233-235: "if count < 1 or count > 100:"
count_invalid(c) == c < 1 \/ c > 100

\* scan_page treating no status as a client error (every HTTPError retried)
IsClientError_never(status) == FALSE

\* scan_page: "if 400 <= e.response.status_code < 500: raise"
IsClientError(status) == 400 <= status /\ status < 500

RECURSIVE Flatten_reversed(_)
\* a flattening that takes the sublists from the last to the first
Flatten_reversed(ss) ==
    IF ss = <<>> THEN <<>> ELSE Flatten_reversed(Tail(ss)) \o Head(ss)

\* flattening "[item for sublist in results for item in sublist]"
RECURSIVE Flatten(_)
Flatten(ss) == IF ss = <<>> THEN <<>> ELSE Head(ss) \o Flatten(Tail(ss))

\* ------------------------------------------------------------------ state
VARIABLES
    key_min,            \* lower end of the key space that is partitioned (MIN_KEY in both scripts)
    key_max,            \* upper end of the key space that is partitioned (MAX_KEY in both scripts)
    scanner,            \* "accounts" (parallel_scan) or "licenses" (parallel_fetch_licenses)
    partitions,         \* --partitions
    count,              \* page size of every request
    dataset,            \* keys of the records the remote collection holds
    cpc,                \* main and coordinator: "main", "exit1", "start", "gather",
                        \* "returned", "raised"; "partition", "partitioned" when the
                        \* partitioning is run on its own
    ranges,             \* generate_key_ranges(partitions)
    cresult,            \* the flattened list the coordinator returns
    cerror,             \* the error the coordinator raises
    wstate,             \* per walker: "Idle", "Fetching", "Exhausted", "Failed"
    current_start_key,  \* per walker: lower bound of the next request
    start_inclusive,    \* per walker: startInclusive of the next request
    results,            \* per walker: records collected so far
    tries,              \* per walker: Backoff.tries of the running scan_page call (0 when none runs)
    attempts,           \* per walker: requests issued so far by the running page fetch (0 when none runs)
    pages,              \* per walker: lengths of the pages fetched so far
    lastOutcome,        \* per walker: class of the last response: "none", "ok", "client", "retryable"
    werror,             \* per walker: the error that ended it, "none" otherwise
    firstError          \* the first walker error in time, "none" otherwise

scanVars == <<key_min, key_max, scanner, partitions, count, dataset, cpc, ranges, cresult, cerror,
              wstate, current_start_key, start_inclusive, results, tries,
              attempts, pages, lastOutcome, werror, firstError>>

VARIABLES
    all_licenses,       \* main: the list parallel_fetch_licenses returned
    accounts,           \* main: enabled licenses grouped by accountKey, in insertion order
    mpc,                \* main: "off", "fetched", "batch", "process", "done"
    batch_i,            \* main: loop variable i of "range(0, len(account_keys), BATCH_SIZE)"
    work,               \* process_account_licenses: the move/delete sites still ahead
    phase,              \* process_account_licenses: next call of the try block, "move" or "delete"
    moveRequests,       \* <<user_id, target license key>> of every move request issued
    moved,              \* <<user_id, target license key>> of every successful move
    deleteCalls,        \* per license key: number of delete requests issued
    deleted,            \* keys of the licenses deleted successfully
    allOk               \* no remote call of the consolidation failed so far

consVars == <<all_licenses, accounts, mpc, batch_i, work, phase, moveRequests,
              moved, deleteCalls, deleted, allOk>>

VARIABLES
    initial_delay_ms,   \* Backoff.initial_delay_ms
    max_delay_ms,       \* Backoff.max_delay_ms
    backoff_tries,      \* Backoff.tries of a Backoff used on its own
    delay,              \* backoff: "delay" of the last call, in ms (0 before the first)
    actual_delay,       \* backoff: "actual_delay" of the last call, in 1/10000 ms
    bpc                 \* the Backoff used on its own: "off", "ready", "raised"

backoffVars == <<initial_delay_ms, max_delay_ms, backoff_tries, delay,
                 actual_delay, bpc>>

VARIABLES
    event_log,          \* read_queue_events main: the deque shared by the threads;
                        \* an entry is the "event_type" kind of the appended dict
    max_events,         \* --max-events
    qpc,                \* per monitor_queue thread: its position
    empty_pops          \* threads whose popleft() found the deque empty (IndexError)

queueVars == <<event_log, max_events, qpc, empty_pops>>

vars == <<scanVars, consVars, backoffVars, queueVars>>

Walkers == 1..Len(ranges)

Terminal(i) == wstate[i] \in {"Exhausted", "Failed"}

\* ------------------------------------------------------------------- Init
\* no Backoff is used on its own
BackoffOff ==
    /\ initial_delay_ms = 0
    /\ max_delay_ms = 0
    /\ backoff_tries = 0
    /\ delay = 0
    /\ actual_delay = 0
    /\ bpc = "off"

\* read_queue_events.py does not run
QueueOff ==
    /\ event_log = <<>>
    /\ max_events = 0
    /\ qpc = <<>>
    /\ empty_pops = {}

\* the consolidation pass has not been entered
ConsolidationOff ==
    /\ all_licenses = <<>>
    /\ accounts = <<>>
    /\ mpc = "off"
    /\ batch_i = 0
    /\ work = <<>>
    /\ phase = "move"
    /\ moveRequests = {}
    /\ moved = {}
    /\ deleteCalls = <<>>
    /\ deleted = {}
    /\ allOk = TRUE

Init ==
    /\ key_min = MIN_KEY
    /\ key_max = MAX_KEY
    /\ scanner \in {"accounts", "licenses"}
    /\ partitions \in {-1, 0} \cup (1..MaxPartitions)
    /\ count \in (1..MaxCount) \cup InvalidCounts
    /\ scanner = "licenses" => count = LICENSE_COUNT
    /\ dataset \in SUBSET Keys
    /\ cpc = "main"
    /\ ranges = <<>>
    /\ cresult = <<>>
    /\ cerror = "none"
    /\ wstate = <<>>
    /\ current_start_key = <<>>
    /\ start_inclusive = <<>>
    /\ results = <<>>
    /\ tries = <<>>
    /\ attempts = <<>>
    /\ pages = <<>>
    /\ lastOutcome = <<>>
    /\ werror = <<>>
    /\ firstError = "none"
    /\ ConsolidationOff
    /\ BackoffOff
    /\ QueueOff

\* ------------------------------------------------------------------- main
\* scan-for-account-attributes.py main lines 232-273: the count is validated
\* (sys.exit(1) when it is out of range), then parallel_scan is called;
\* --partitions is not validated.  consolidate_duplicated_ea_licenses.py main
\* line 111 calls parallel_fetch_licenses without any validation.
Main ==
    /\ cpc = "main"
    /\ cpc' = IF scanner = "accounts" /\ count_invalid(count)
              THEN "exit1" ELSE "start"
    /\ UNCHANGED <<key_min, key_max, scanner, partitions, count, dataset,
                   ranges, cresult, cerror, wstate, current_start_key,
                   start_inclusive, results, tries, attempts, pages,
                   lastOutcome, werror, firstError>>
    /\ UNCHANGED <<consVars, backoffVars, queueVars>>

\* ------------------------------------------------------------ coordinator
\* parallel_scan lines 180-196 / parallel_fetch_licenses lines 53-62:
\* the ranges are built and one walker per range is created.
ParallelStart ==
    /\ cpc = "start"
    /\ IF partitions = 0
       THEN \* key_range // 0
            /\ cpc' = "raised"
            /\ cerror' = "ZeroDivisionError"
            /\ UNCHANGED <<ranges, wstate, current_start_key, start_inclusive,
                           results, tries, attempts, pages, lastOutcome, werror>>
       ELSE LET rs == KeyRanges(partitions)
                W == 1..Len(rs)
            IN  /\ ranges' = rs
                /\ cpc' = "gather"
                /\ wstate' = [i \in W |-> "Idle"]
                /\ current_start_key' = [i \in W |-> rs[i][1]]
                /\ start_inclusive' = [i \in W |-> TRUE]
                /\ results' = [i \in W |-> <<>>]
                /\ tries' = [i \in W |-> 0]
                /\ attempts' = [i \in W |-> 0]
                /\ pages' = [i \in W |-> <<>>]
                /\ lastOutcome' = [i \in W |-> "none"]
                /\ werror' = [i \in W |-> "none"]
                /\ UNCHANGED cerror
    /\ UNCHANGED <<key_min, key_max, scanner, partitions, count, dataset, cresult, firstError>>
    /\ UNCHANGED <<consVars, backoffVars, queueVars>>

\* ---------------------------------------------------------------- walkers
\* parallel_scan: the coroutines handed to asyncio.gather contain no await
\* that suspends (requests.get and time.sleep block the event loop), so each
\* task runs from start to end in one step of the loop, in list order.
\* parallel_fetch_licenses: each walker runs in its own executor thread
\* (ThreadPoolExecutor() has at least 5 workers), so their steps interleave.
Scheduled(i) ==
    scanner = "accounts" => \A j \in Walkers : j < i => Terminal(j)

\* scan_key_range lines 120-122 / fetch_licenses_by_role_and_key_range
\* lines 36-37: the walker's locals are initialised.
WalkerStart(i) ==
    /\ cpc = "gather"
    /\ wstate[i] = "Idle"
    /\ Scheduled(i)
    /\ wstate' = [wstate EXCEPT ![i] = "Fetching"]
    /\ results' = [results EXCEPT ![i] = <<>>]
    /\ current_start_key' = [current_start_key EXCEPT ![i] = ranges[i][1]]
    /\ start_inclusive' = [start_inclusive EXCEPT ![i] = TRUE]
    /\ UNCHANGED <<key_min, key_max, scanner, partitions, count, dataset, cpc, ranges, cresult,
                   cerror, tries, attempts, pages, lastOutcome, werror, firstError>>
    /\ UNCHANGED <<consVars, backoffVars, queueVars>>

\* scan_key_range stopping at the first short page
scan_key_range_done_short(batch) == Len(batch) < count

\* scan_key_range: "if not batch: break"
scan_key_range_done(batch) == batch = <<>>

\* a cursor that stays on the first record of the batch
scan_key_range_cursor_stuck(batch) == [key |-> batch[1], inclusive |-> TRUE]

\* scan_key_range lines 147-148: the cursor after a non-empty batch
scan_key_range_cursor(batch) ==
    [key |-> batch[Len(batch)], inclusive |-> FALSE]

\* scan_key_range bounding every request by the end of the key space
scan_key_range_end_of_space(i) == [key |-> MAX_KEY, inclusive |-> FALSE]

\* scan_key_range passes end_key=end_key, end_inclusive=False
scan_key_range_end(i) == [key |-> ranges[i][2], inclusive |-> FALSE]

\* a retry that starts over from the beginning of the key space
scan_page_retry_restart(cursor) == [key |-> MIN_KEY, inclusive |-> TRUE]

\* scan_page lines 70-84 and 88-103: params is built once before the
\* "while True" loop and every iteration passes the same dict to
\* requests.get, so the cursor of the re-issued request is the cursor given
\* to the call.
scan_page_retry(cursor) == cursor

\* one Backoff per walker, kept from page to page
tries_at_next_page_kept(t) == t

\* scan_page line 86: "backoff = Backoff()" on every call, so the call for
\* the next page starts with tries = 0 whatever the tries t of this call
tries_at_next_page(t) == 0

\* One iteration of scan_page's "while True" (one request and the handling of
\* its outcome); on success also the rest of scan_key_range's loop body.
ScanPage(i) ==
    /\ cpc = "gather"
    /\ scanner = "accounts"
    /\ wstate[i] = "Fetching"
    /\ Scheduled(i)
    /\ \E status \in Responses :
        /\ lastOutcome' = [lastOutcome EXCEPT ![i] = ResponseClass(status)]
        /\ IF status = 200
           THEN LET e == scan_key_range_end(i)
                    batch == ServerPage(dataset, current_start_key[i],
                                        start_inclusive[i], e.key, e.inclusive,
                                        count)
                IN  /\ pages' = [pages EXCEPT ![i] = Append(@, Len(batch))]
                    \* scan_page returned: the next call builds a new Backoff
                    /\ tries' = [tries EXCEPT ![i] = tries_at_next_page(@)]
                    /\ attempts' = [attempts EXCEPT ![i] = 0]
                    /\ IF scan_key_range_done(batch)
                       THEN /\ wstate' = [wstate EXCEPT ![i] = "Exhausted"]
                            /\ UNCHANGED <<results, current_start_key,
                                           start_inclusive>>
                       ELSE LET c == scan_key_range_cursor(batch)
                            IN  /\ results' = [results EXCEPT ![i] = @ \o batch]
                                /\ current_start_key' =
                                     [current_start_key EXCEPT ![i] = c.key]
                                /\ start_inclusive' =
                                     [start_inclusive EXCEPT ![i] = c.inclusive]
                                /\ UNCHANGED wstate
                    /\ UNCHANGED <<werror, firstError>>
           ELSE /\ IF status # TRANSPORT_ERROR /\ IsClientError(status)
                   THEN \* HTTPError 4xx: re-raised, scan_page is left
                        /\ wstate' = [wstate EXCEPT ![i] = "Failed"]
                        /\ werror' = [werror EXCEPT ![i] = "ClientError"]
                        /\ firstError' = IF firstError = "none"
                                         THEN "ClientError" ELSE firstError
                        /\ tries' = [tries EXCEPT ![i] = 0]
                        /\ attempts' = [attempts EXCEPT ![i] = 0]
                   ELSE \* HTTPError 5xx or RequestException: backoff.backoff()
                        LET b == Backoff_backoff(tries[i])
                        IN  IF b.raised
                            THEN \* "Exceeded maximum retries": scan_page is left
                                 /\ wstate' = [wstate EXCEPT ![i] = "Failed"]
                                 /\ werror' = [werror EXCEPT ![i] =
                                                 "RetriesExhausted"]
                                 /\ firstError' =
                                      IF firstError = "none"
                                      THEN "RetriesExhausted" ELSE firstError
                                 /\ tries' = [tries EXCEPT ![i] = 0]
                                 /\ attempts' = [attempts EXCEPT ![i] = 0]
                            ELSE \* time.sleep, then the request is re-issued
                                 /\ tries' = [tries EXCEPT ![i] = b.tries]
                                 /\ attempts' = [attempts EXCEPT ![i] = @ + 1]
                                 /\ UNCHANGED <<wstate, werror, firstError>>
                /\ LET c == scan_page_retry(
                                [key |-> current_start_key[i],
                                 inclusive |-> start_inclusive[i]])
                   IN  /\ current_start_key' =
                            [current_start_key EXCEPT ![i] = c.key]
                       /\ start_inclusive' =
                            [start_inclusive EXCEPT ![i] = c.inclusive]
                /\ UNCHANGED <<pages, results>>
    /\ UNCHANGED <<key_min, key_max, scanner, partitions, count, dataset, cpc, ranges, cresult,
                   cerror>>
    /\ UNCHANGED <<consVars, backoffVars, queueVars>>

\* fetch_licenses_by_role_and_key_range: "if not licenses: break" (line 44)
\* and "if len(licenses) < 100: break" (line 47)
fetch_licenses_done(licenses) ==
    licenses = <<>> \/ Len(licenses) < LICENSE_COUNT

\* fetch_licenses_by_role_and_key_range line 49 with "startInclusive": True
\* of line 39
fetch_licenses_cursor(licenses) ==
    [key |-> licenses[Len(licenses)], inclusive |-> TRUE]

\* One iteration of fetch_licenses_by_role_and_key_range's "while True":
\* requests.get, raise_for_status (any error leaves the function), and the
\* handling of the page.
FetchLicenses(i) ==
    /\ cpc = "gather"
    /\ scanner = "licenses"
    /\ wstate[i] = "Fetching"
    /\ Scheduled(i)
    /\ \E status \in Responses :
        /\ lastOutcome' = [lastOutcome EXCEPT ![i] = ResponseClass(status)]
        /\ IF status = 200
           THEN LET licenses == ServerPage(dataset, current_start_key[i],
                                           start_inclusive[i], ranges[i][2],
                                           FALSE, LICENSE_COUNT)
                IN  /\ pages' = [pages EXCEPT ![i] = Append(@, Len(licenses))]
                    /\ attempts' = [attempts EXCEPT ![i] = 0]
                    /\ results' = [results EXCEPT ![i] = @ \o licenses]
                    /\ IF fetch_licenses_done(licenses)
                       THEN /\ wstate' = [wstate EXCEPT ![i] = "Exhausted"]
                            /\ UNCHANGED <<current_start_key, start_inclusive>>
                       ELSE LET c == fetch_licenses_cursor(licenses)
                            IN  /\ current_start_key' =
                                     [current_start_key EXCEPT ![i] = c.key]
                                /\ start_inclusive' =
                                     [start_inclusive EXCEPT ![i] = c.inclusive]
                                /\ UNCHANGED wstate
                    /\ UNCHANGED <<werror, firstError>>
           ELSE LET err == IF status = TRANSPORT_ERROR
                           THEN "TransportError" ELSE "HTTPError"
                IN  /\ attempts' = [attempts EXCEPT ![i] = 0]
                    /\ wstate' = [wstate EXCEPT ![i] = "Failed"]
                    /\ werror' = [werror EXCEPT ![i] = err]
                    /\ firstError' = IF firstError = "none" THEN err
                                     ELSE firstError
                    /\ UNCHANGED <<pages, results, current_start_key,
                                   start_inclusive>>
    /\ UNCHANGED <<key_min, key_max, scanner, partitions, count, dataset, cpc, ranges, cresult,
                   cerror, tries>>
    /\ UNCHANGED <<consVars, backoffVars, queueVars>>

\* the coordinator resuming as soon as one walker has failed
gather_resumes_fail_fast ==
    \/ \A i \in Walkers : Terminal(i)
    \/ \E i \in Walkers : wstate[i] = "Failed"

\* When the coordinator goes on after "await asyncio.gather(*tasks)".
\* parallel_scan: the tasks contain no suspending await, so all of them have
\* run to their end in the loop iteration before gather's result or exception
\* reaches the coordinator.  parallel_fetch_licenses: an exception leaves the
\* "with ThreadPoolExecutor()" block, whose exit joins every worker thread.
gather_resumes == \A i \in Walkers : Terminal(i)

\* gather(..., return_exceptions=True): the await never raises
gather_returns_always == TRUE

\* "results = await asyncio.gather(*tasks)": TRUE when the await returns the
\* list of results, FALSE when it raises the first exception set on the
\* gathered future.
gather_returns == \A i \in Walkers : wstate[i] = "Exhausted"

\* parallel_scan lines 198-200 / parallel_fetch_licenses lines 63-64.  The
\* coordinator resumes once every task ran (accounts: all tasks run in the
\* loop iteration before gather's callbacks; licenses: the "with
\* ThreadPoolExecutor()" block joins every worker thread on exit).
Gather ==
    /\ cpc = "gather"
    /\ gather_resumes
    /\ IF gather_returns
       THEN /\ cpc' = "returned"
            /\ cresult' = Flatten(results)
            /\ UNCHANGED cerror
       ELSE /\ cpc' = "raised"
            /\ cerror' = firstError
            /\ UNCHANGED cresult
    /\ UNCHANGED <<key_min, key_max, scanner, partitions, count, dataset, ranges, wstate,
                   current_start_key, start_inclusive, results, tries,
                   attempts, pages, lastOutcome, werror, firstError>>
    /\ UNCHANGED <<consVars, backoffVars, queueVars>>

Next ==
    \/ Main
    \/ ParallelStart
    \/ \E i \in Walkers : WalkerStart(i)
    \/ \E i \in Walkers : ScanPage(i)
    \/ \E i \in Walkers : FetchLicenses(i)
    \/ Gather

Spec == Init /\ [][Next]_vars

\* The scripts keep running: the event loop runs every task handed to
\* asyncio.gather, the executor runs every submitted call, every request
\* returns (a page or an error) and every time.sleep ends.
SpecFair == Spec /\ WF_vars(Next)

\* ---------------------------------------------------- consolidation pass
\* consolidate_duplicated_ea_licenses.py, main lines 111-120 and
\* process_account_licenses.  A license is a record
\* [key, accountKey, userKeys, enabled]; its key is its position in
\* all_licenses.

LicenseLists ==
    UNION {[1..n -> [accountKey : AccountKeys,
                     userKeys : UserLists,
                     enabled : BOOLEAN]] : n \in 0..MaxLicenses}

License(k) == [key |-> k,
               accountKey |-> all_licenses[k].accountKey,
               userKeys |-> all_licenses[k].userKeys,
               enabled |-> all_licenses[k].enabled]

Elems(s) == {s[p] : p \in 1..Len(s)}

RECURSIVE GroupByAccount(_, _)
\* main lines 112-116: "accounts[lic["accountKey"]].append(lic)" for every
\* enabled license; a dict keeps its keys in insertion order.  lics is the
\* list still to read, acc the groups built so far.
GroupByAccount(lics, acc) ==
    IF lics = <<>> THEN acc
    ELSE LET lic == Head(lics)
             at == {g \in 1..Len(acc) : acc[g].accountKey = lic.accountKey}
         IN  IF ~lic.enabled THEN GroupByAccount(Tail(lics), acc)
             ELSE IF at = {}
             THEN GroupByAccount(Tail(lics),
                     Append(acc, [accountKey |-> lic.accountKey,
                                  ea_licenses |-> <<lic>>]))
             ELSE LET g == CHOOSE x \in at : TRUE
                  IN  GroupByAccount(Tail(lics),
                         [acc EXCEPT ![g].ea_licenses = Append(@, lic)])

\* the first license of the list with the smallest number of userKeys
Primary_smallest(ea_licenses) ==
    LET best == CHOOSE p \in 1..Len(ea_licenses) :
                   /\ \A q \in 1..Len(ea_licenses) :
                         Len(ea_licenses[q].userKeys) >= Len(ea_licenses[p].userKeys)
                   /\ \A q \in 1..(p - 1) :
                         Len(ea_licenses[q].userKeys) > Len(ea_licenses[p].userKeys)
    IN  ea_licenses[best]

\* "max(ea_licenses, key=lambda l: len(l.get("userKeys", [])))": the first
\* license of the list with the largest number of userKeys
Primary(ea_licenses) ==
    LET best == CHOOSE p \in 1..Len(ea_licenses) :
                   /\ \A q \in 1..Len(ea_licenses) :
                         Len(ea_licenses[q].userKeys) <= Len(ea_licenses[p].userKeys)
                   /\ \A q \in 1..(p - 1) :
                         Len(ea_licenses[q].userKeys) < Len(ea_licenses[p].userKeys)
    IN  ea_licenses[best]

RECURSIVE UserSites(_, _, _)
\* process_account_licenses lines 87-88 for one license: one site per user_id
\* of lic["userKeys"] that is not in primary_users
UserSites(users, lic, primary) ==
    IF users = <<>> THEN <<>>
    ELSE LET rest == UserSites(Tail(users), lic, primary)
         IN  IF Head(users) \in Elems(primary.userKeys) THEN rest
             ELSE <<[accountKey |-> lic.accountKey, primary_key |-> primary.key,
                     lic_key |-> lic.key, user_id |-> Head(users)]>> \o rest

RECURSIVE LicenseSites(_, _)
\* process_account_licenses lines 84-86 for one group
LicenseSites(lics, primary) ==
    IF lics = <<>> THEN <<>>
    ELSE IF Head(lics).key = primary.key THEN LicenseSites(Tail(lics), primary)
    ELSE UserSites(Head(lics).userKeys, Head(lics), primary)
            \o LicenseSites(Tail(lics), primary)

RECURSIVE GroupSites(_)
\* process_account_licenses lines 77-88: the try blocks the nested loops
\* reach, in order (the loops read nothing a remote call changes)
GroupSites(groups) ==
    IF groups = <<>> THEN <<>>
    ELSE LET g == Head(groups)
         IN  IF Len(g.ea_licenses) <= 1 THEN GroupSites(Tail(groups))
             ELSE LicenseSites(g.ea_licenses, Primary(g.ea_licenses))
                     \o GroupSites(Tail(groups))

\* main line 118-119: "account_keys[i:i+BATCH_SIZE]"
BatchGroups(i) ==
    SubSeq(accounts, i + 1,
           IF i + BATCH_SIZE <= Len(accounts) THEN i + BATCH_SIZE ELSE Len(accounts))

\* the state main is in once parallel_fetch_licenses has returned
InitConsolidate ==
    /\ key_min = MIN_KEY
    /\ key_max = MAX_KEY
    /\ scanner = "licenses"
    /\ partitions = 1
    /\ count = LICENSE_COUNT
    /\ dataset = {}
    /\ cpc = "returned"
    /\ ranges = <<>>
    /\ cresult = <<>>
    /\ cerror = "none"
    /\ wstate = <<>>
    /\ current_start_key = <<>>
    /\ start_inclusive = <<>>
    /\ results = <<>>
    /\ tries = <<>>
    /\ attempts = <<>>
    /\ pages = <<>>
    /\ lastOutcome = <<>>
    /\ werror = <<>>
    /\ firstError = "none"
    /\ all_licenses \in LicenseLists
    /\ accounts = <<>>
    /\ mpc = "fetched"
    /\ batch_i = 0
    /\ work = <<>>
    /\ phase = "move"
    /\ moveRequests = {}
    /\ moved = {}
    /\ deleteCalls = [k \in 1..Len(all_licenses) |-> 0]
    /\ deleted = {}
    /\ allOk = TRUE
    /\ BackoffOff
    /\ QueueOff

\* main lines 112-117: grouping, and the first test of the batch loop
MainGroup ==
    /\ mpc = "fetched"
    /\ LET acc == GroupByAccount([k \in 1..Len(all_licenses) |-> License(k)], <<>>)
       IN  /\ accounts' = acc
           /\ mpc' = IF Len(acc) = 0 THEN "done" ELSE "batch"
    /\ batch_i' = 0
    /\ UNCHANGED <<all_licenses, work, phase, moveRequests, moved, deleteCalls,
                   deleted, allOk>>
    /\ UNCHANGED <<scanVars, backoffVars, queueVars>>

\* main lines 118-120: the batch is cut and process_account_licenses is called
BatchStart ==
    /\ mpc = "batch"
    /\ work' = GroupSites(BatchGroups(batch_i))
    /\ phase' = "move"
    /\ mpc' = "process"
    /\ UNCHANGED <<all_licenses, accounts, batch_i, moveRequests, moved,
                   deleteCalls, deleted, allOk>>
    /\ UNCHANGED <<scanVars, backoffVars, queueVars>>

\* a failed move leaving process_account_licenses' loops (no except clause
\* around the try block of the batch)
after_move_failure_abort(w) == <<>>

\* process_account_licenses lines 94-95: the except clause logs the error and
\* the loop over the users goes on with the next try block
after_move_failure(w) == Tail(w)

\* process_account_licenses line 90: move_user_to_license; ok is FALSE when
\* the request or raise_for_status raises, which the except of line 94
\* catches (the delete of line 92 is then skipped).
MoveUser ==
    /\ mpc = "process"
    /\ work # <<>>
    /\ phase = "move"
    /\ LET site == Head(work)
       IN  /\ moveRequests' = moveRequests \cup {<<site.user_id, site.primary_key>>}
           /\ \E ok \in BOOLEAN :
                IF ok
                THEN /\ moved' = moved \cup {<<site.user_id, site.primary_key>>}
                     /\ phase' = "delete"
                     /\ UNCHANGED <<work, allOk>>
                ELSE /\ work' = after_move_failure(work)
                     /\ allOk' = FALSE
                     /\ UNCHANGED <<moved, phase>>
    /\ UNCHANGED <<all_licenses, accounts, mpc, batch_i, deleteCalls, deleted>>
    /\ UNCHANGED <<scanVars, backoffVars, queueVars>>

\* process_account_licenses line 92: delete_license(lic["key"]) inside the
\* same try block, after the move of this user succeeded
DeleteLicense ==
    /\ mpc = "process"
    /\ work # <<>>
    /\ phase = "delete"
    /\ LET site == Head(work)
       IN  /\ deleteCalls' = [deleteCalls EXCEPT ![site.lic_key] = @ + 1]
           /\ \E ok \in BOOLEAN :
                IF ok
                THEN /\ deleted' = deleted \cup {site.lic_key}
                     /\ UNCHANGED allOk
                ELSE /\ allOk' = FALSE
                     /\ UNCHANGED deleted
    /\ work' = Tail(work)
    /\ phase' = "move"
    /\ UNCHANGED <<all_licenses, accounts, mpc, batch_i, moveRequests, moved>>
    /\ UNCHANGED <<scanVars, backoffVars, queueVars>>

\* process_account_licenses returns; main line 117 takes the next i
BatchEnd ==
    /\ mpc = "process"
    /\ work = <<>>
    /\ batch_i' = batch_i + BATCH_SIZE
    /\ mpc' = IF batch_i + BATCH_SIZE < Len(accounts) THEN "batch" ELSE "done"
    /\ UNCHANGED <<all_licenses, accounts, work, phase, moveRequests, moved,
                   deleteCalls, deleted, allOk>>
    /\ UNCHANGED <<scanVars, backoffVars, queueVars>>

NextConsolidate ==
    \/ MainGroup
    \/ BatchStart
    \/ MoveUser
    \/ DeleteLicense
    \/ BatchEnd

SpecConsolidate == InitConsolidate /\ [][NextConsolidate]_vars

\* ------------------------------------------------ the partitioning alone
\* generate_key_ranges applied to a key space [key_min, key_max] and a
\* partition count chosen freely; nothing else of the scripts runs.
InitPartition ==
    /\ key_min \in KeySpaceMins
    /\ key_max \in KeySpaceMaxs
    /\ partitions \in PartitionCounts
    /\ scanner = "accounts"
    /\ count = 1
    /\ dataset = {}
    /\ cpc = "partition"
    /\ ranges = <<>>
    /\ cresult = <<>>
    /\ cerror = "none"
    /\ wstate = <<>>
    /\ current_start_key = <<>>
    /\ start_inclusive = <<>>
    /\ results = <<>>
    /\ tries = <<>>
    /\ attempts = <<>>
    /\ pages = <<>>
    /\ lastOutcome = <<>>
    /\ werror = <<>>
    /\ firstError = "none"
    /\ ConsolidationOff
    /\ BackoffOff
    /\ QueueOff

\* ranges = generate_key_ranges(partitions)
PartitionKeySpace ==
    /\ cpc = "partition"
    /\ ranges' = partition_ranges(key_min, key_max, partitions)
    /\ cpc' = "partitioned"
    /\ UNCHANGED <<key_min, key_max, scanner, partitions, count, dataset,
                   cresult, cerror, wstate, current_start_key, start_inclusive,
                   results, tries, attempts, pages, lastOutcome, werror,
                   firstError>>
    /\ UNCHANGED <<consVars, backoffVars, queueVars>>

NextPartition == PartitionKeySpace

SpecPartition == InitPartition /\ [][NextPartition]_vars

\* ---------------------------------------------------- the Backoff alone
\* neither scanner runs
ScanOff ==
    /\ key_min = MIN_KEY
    /\ key_max = MAX_KEY
    /\ scanner = "accounts"
    /\ partitions = 1
    /\ count = 1
    /\ dataset = {}
    /\ cpc = "off"
    /\ ranges = <<>>
    /\ cresult = <<>>
    /\ cerror = "none"
    /\ wstate = <<>>
    /\ current_start_key = <<>>
    /\ start_inclusive = <<>>
    /\ results = <<>>
    /\ tries = <<>>
    /\ attempts = <<>>
    /\ pages = <<>>
    /\ lastOutcome = <<>>
    /\ werror = <<>>
    /\ firstError = "none"

\* One Backoff object whose backoff() is called again and again, as
\* scan_page and get_plan_settings do after every retryable failure.
InitBackoff ==
    /\ initial_delay_ms \in InitialDelays
    /\ max_delay_ms \in MaxDelays
    /\ backoff_tries = 0
    /\ delay = 0
    /\ actual_delay = 0
    /\ bpc = "ready"
    /\ ScanOff
    /\ ConsolidationOff
    /\ QueueOff

\* Backoff.backoff, lines 37-51: tries += 1, the raise, the delay, the jitter
\* and the sleep
BackoffCall ==
    /\ bpc = "ready"
    /\ LET b == Backoff_backoff(backoff_tries)
       IN  /\ backoff_tries' = b.tries
           /\ IF b.raised
              THEN /\ bpc' = "raised"
                   /\ UNCHANGED <<delay, actual_delay>>
              ELSE \E f \in TimeFractions :
                    LET d == Backoff_delay(initial_delay_ms, max_delay_ms, b.tries)
                    IN  /\ delay' = d
                        /\ actual_delay' = Backoff_actual_delay(d, f)
                        /\ UNCHANGED bpc
    /\ UNCHANGED <<initial_delay_ms, max_delay_ms>>
    /\ UNCHANGED <<scanVars, consVars, queueVars>>

NextBackoff == BackoffCall

SpecBackoff == InitBackoff /\ [][NextBackoff]_vars

\* -------------------------------------------------- read_queue_events.py
\* main starts one monitor_queue thread per event argument; all of them get
\* the same deque.  A thread is at "get" (line 59), at the test or the pop of
\* the trim loop inside the try block (lines 105-106), of the RequestError
\* handler (lines 131-132) or of the Exception handler (lines 156-157), or
\* "dead" once an exception has left monitor_queue.  The thread switch may
\* come between the test "len(event_log) > max_events" and "popleft()".
QueueThreads == DOMAIN qpc

InitQueue ==
    /\ event_log = <<>>
    /\ max_events \in 1..MaxEvents
    /\ \E n \in 1..MaxThreads : qpc = [t \in 1..n |-> "get"]
    /\ empty_pops = {}
    /\ ScanOff
    /\ ConsolidationOff
    /\ BackoffOff

\* monitor_queue lines 59-89, 107-120, 135-145: one httpx.get and what
\* follows it up to the trim loop.  "empty" (no text) and "timeout" lead to
\* time.sleep and back to line 59.
QueueGet(t) ==
    /\ qpc[t] = "get"
    /\ \E outcome \in {"event", "empty", "timeout", "request_error", "error"} :
          CASE outcome = "event" ->
                 /\ event_log' = Append(event_log, "EVENT")
                 /\ qpc' = [qpc EXCEPT ![t] = "test_try"]
            [] outcome = "request_error" ->
                 /\ event_log' = Append(event_log, "REQUEST_ERROR")
                 /\ qpc' = [qpc EXCEPT ![t] = "test_request_error"]
            [] outcome = "error" ->
                 /\ event_log' = Append(event_log, "ERROR")
                 /\ qpc' = [qpc EXCEPT ![t] = "test_error"]
            [] OTHER ->
                 UNCHANGED <<event_log, qpc>>
    /\ UNCHANGED <<max_events, empty_pops>>
    /\ UNCHANGED <<scanVars, consVars, backoffVars>>

\* "while len(event_log) > max_events:" of lines 105, 131 and 156; when the
\* loop ends the thread sleeps and goes back to line 59
QueueTrimTest(t) ==
    /\ qpc[t] \in {"test_try", "test_request_error", "test_error"}
    /\ qpc' = [qpc EXCEPT ![t] =
                 IF Len(event_log) > max_events
                 THEN CASE qpc[t] = "test_try" -> "pop_try"
                        [] qpc[t] = "test_request_error" -> "pop_request_error"
                        [] OTHER -> "pop_error"
                 ELSE "get"]
    /\ UNCHANGED <<event_log, max_events, empty_pops>>
    /\ UNCHANGED <<scanVars, consVars, backoffVars>>

\* "event_log.popleft()" of lines 106, 132 and 157.  On an empty deque it
\* raises IndexError: inside the try block the "except Exception" clause of
\* line 135 catches it, appends an ERROR entry and goes to the trim loop of
\* line 156; inside an except clause nothing catches it and the thread ends.
QueuePop(t) ==
    /\ qpc[t] \in {"pop_try", "pop_request_error", "pop_error"}
    /\ IF event_log # <<>>
       THEN /\ event_log' = Tail(event_log)
            /\ qpc' = [qpc EXCEPT ![t] =
                         CASE qpc[t] = "pop_try" -> "test_try"
                           [] qpc[t] = "pop_request_error" -> "test_request_error"
                           [] OTHER -> "test_error"]
            /\ UNCHANGED empty_pops
       ELSE /\ empty_pops' = empty_pops \cup {t}
            /\ IF qpc[t] = "pop_try"
               THEN /\ event_log' = Append(event_log, "ERROR")
                    /\ qpc' = [qpc EXCEPT ![t] = "test_error"]
               ELSE /\ qpc' = [qpc EXCEPT ![t] = "dead"]
                    /\ UNCHANGED event_log
    /\ UNCHANGED max_events
    /\ UNCHANGED <<scanVars, consVars, backoffVars>>

NextQueue ==
    \/ \E t \in QueueThreads : QueueGet(t)
    \/ \E t \in QueueThreads : QueueTrimTest(t)
    \/ \E t \in QueueThreads : QueuePop(t)

SpecQueue == InitQueue /\ [][NextQueue]_vars

\* -------------------------------------------------------------- properties
Occurrences(s, k) == Cardinality({p \in 1..Len(s) : s[p] = k})

WindowKeys(i) == {k \in Keys : ranges[i][1] <= k /\ k <= ranges[i][2]}

\* the records the walker's first request covers (window.start inclusive,
\* window.end exclusive)
FirstRequestData(i) ==
    {k \in dataset : ranges[i][1] <= k /\ k < ranges[i][2]}

\* C1: for n >= 1, generate_key_ranges(n) returns exactly n windows in
\* ascending order, the first starting at MIN_KEY, the last ending at MAX_KEY,
\* consecutive windows contiguous (end[i] + 1 = start[i+1]), and every key of
\* [MIN_KEY, MAX_KEY] lies in exactly one window and no window leaves it.
C1_PartitionCoverage ==
    (cpc \in {"gather", "returned", "raised"} /\ partitions >= 1) =>
        /\ Len(ranges) = partitions
        /\ ranges[1][1] = MIN_KEY
        /\ ranges[partitions][2] = MAX_KEY
        /\ \A i \in 1..(partitions - 1) :
              /\ ranges[i][2] + 1 = ranges[i + 1][1]
              /\ ranges[i][1] < ranges[i + 1][1]
        /\ \A k \in Keys : Cardinality({i \in Walkers : k \in WindowKeys(i)}) = 1
        /\ \A i \in Walkers :
              ranges[i][1] >= MIN_KEY /\ ranges[i][2] <= MAX_KEY

C1_Witness ==
    /\ cpc = "gather"
    /\ partitions = MaxPartitions
    /\ Len(ranges) = MaxPartitions
    /\ ranges[1][2] + 1 = ranges[2][1]

\* C2: when every walker ends Exhausted, the list the coordinator returns
\* holds every record of the dataset with a key in [MIN_KEY, MAX_KEY] exactly
\* once (n >= 1).
C2_EveryRecordOnce ==
    (cpc = "returned" /\ partitions >= 1) =>
        \A k \in Keys : Occurrences(cresult, k) = (IF k \in dataset THEN 1 ELSE 0)

\* C3: a walker's output never holds the same key twice.
C3_NoDuplicateKey ==
    \A i \in Walkers : \A k \in Keys : Occurrences(results[i], k) <= 1

\* C4: a walker that ends Exhausted has output every record of the dataset
\* whose key k satisfies window.start <= k <= window.end.
C4_NoSkippedKey ==
    \A i \in Walkers :
        wstate[i] = "Exhausted" =>
            \A k \in dataset \cap WindowKeys(i) : Occurrences(results[i], k) >= 1

C6_ExactlyOneFullPage ==
    \A i \in Walkers :
        (wstate[i] = "Exhausted" /\ Cardinality(FirstRequestData(i)) = count) =>
            /\ Len(pages[i]) = 2
            /\ results[i] = SortedSeq(FirstRequestData(i))

\* C7: with max_tries = 10 a page fetch of the account scanner issues at most
\* max_tries + 1 requests: a walker still fetching has had at most max_tries
\* failed requests, the request after max_tries failures ends the walker
\* Failed with the retries-exhausted error when it fails too, and that error
\* is raised by no earlier request.
C7_BoundedRetries ==
    [][\A i \in Walkers :
          /\ (wstate'[i] = "Fetching") => attempts'[i] <= max_tries
          /\ (wstate[i] = "Fetching" /\ werror'[i] = "RetriesExhausted") =>
                (attempts[i] = max_tries /\ wstate'[i] = "Failed")
          /\ (wstate[i] = "Fetching" /\ attempts[i] = max_tries
                /\ lastOutcome'[i] = "retryable" /\ attempts'[i] # attempts[i]) =>
                (wstate'[i] = "Failed" /\ werror'[i] = "RetriesExhausted")
      ]_vars

C7_Witness ==
    \E i \in Walkers :
        /\ scanner = "accounts"
        /\ wstate[i] = "Failed"
        /\ werror[i] = "RetriesExhausted"

\* C8: a request answered with a 4xx status ends the walker Failed with the
\* client error in that very step: the retry counter is not incremented (no
\* backoff, no sleep) and no further request follows; when the 4xx answers
\* the first request of the page fetch, that fetch made exactly 1 request.
C8_ClientErrorNotRetried ==
    [][\A i \in Walkers :
          /\ (wstate[i] = "Fetching" /\ lastOutcome'[i] = "client") =>
                /\ wstate'[i] = "Failed"
                /\ werror'[i] = IF scanner = "accounts" THEN "ClientError"
                                ELSE "HTTPError"
                /\ tries'[i] <= tries[i]
                /\ attempts'[i] <= attempts[i]
          /\ (wstate[i] = "Failed") =>
                /\ wstate'[i] = "Failed"
                /\ lastOutcome'[i] = lastOutcome[i]
                /\ pages'[i] = pages[i]
      ]_vars

C8_Witness ==
    \E i \in Walkers :
        /\ scanner = "accounts"
        /\ wstate[i] = "Failed"
        /\ werror[i] = "ClientError"
        /\ lastOutcome[i] = "client"
        /\ pages[i] = <<>>

\* C9: if any walker ends Failed the coordinator never returns a result
\* list: it raises the first fatal error of a walker.
C9_FailedScanRaises ==
    (cpc \in {"gather", "returned", "raised"}
        /\ \E i \in Walkers : wstate[i] = "Failed") =>
        /\ cpc # "returned"
        /\ cresult = <<>>
        /\ cpc = "raised" =>
              (cerror = firstError /\ \E i \in Walkers : werror[i] = cerror)

C9_Witness ==
    /\ cpc = "raised"
    /\ \E i \in Walkers : wstate[i] = "Failed"
    /\ \E j \in Walkers : wstate[j] = "Exhausted" /\ results[j] # <<>>

\* C10: once the pass is done with every remote call successful, in every
\* group of more than one enabled license the primary is a license with the
\* largest userKeys list, every user of another license of the group that is
\* not in the primary was moved to the primary, no move was requested for a
\* user already in the primary, and every non-primary license of the group
\* was deleted.
C10_GroupFullyMerged ==
    (mpc = "done" /\ allOk) =>
        \A g \in 1..Len(accounts) :
            LET lics == accounts[g].ea_licenses
            IN  Len(lics) > 1 =>
                  \E p \in 1..Len(lics) :
                     /\ \A q \in 1..Len(lics) :
                           Len(lics[q].userKeys) <= Len(lics[p].userKeys)
                     /\ \A q \in 1..Len(lics) :
                           q # p =>
                              /\ lics[q].key \in deleted
                              /\ \A u \in Elems(lics[q].userKeys) :
                                    IF u \in Elems(lics[p].userKeys)
                                    THEN <<u, lics[p].key>> \notin moveRequests
                                    ELSE <<u, lics[p].key>> \in moved

\* the non-primary licenses of the groups of more than one enabled license,
\* each with the primary of its group
Duplicates ==
    UNION {LET lics == accounts[g].ea_licenses
               primary == Primary(lics)
           IN  {[lic |-> lics[q], primary |-> primary] :
                  q \in {x \in 1..Len(lics) : lics[x].key # primary.key}} :
           g \in {x \in 1..Len(accounts) : Len(accounts[x].ea_licenses) > 1}}

\* the users of a duplicate license that are not in the primary
UniqueUsers(d) == Elems(d.lic.userKeys) \ Elems(d.primary.userKeys)

\* C11: a delete request for a non-primary license has been issued only if
\* every user of that license that is not in the primary has been moved to
\* the primary successfully (moves are never undone, and the delete step
\* itself moves nothing).
C11_DeleteOnlyWhenEmptied ==
    \A d \in Duplicates :
        deleteCalls[d.lic.key] > 0 =>
            \A u \in UniqueUsers(d) : <<u, d.primary.key>> \in moved

\* C12: when the pass is done, the delete step has been attempted exactly
\* once for every non-primary license of a group, whatever its members.
C12_DeleteOncePerDuplicate ==
    mpc = "done" => \A d \in Duplicates : deleteCalls[d.lic.key] = 1

\* C13: a failed move aborts nothing: main stays within its batch loop until
\* it is done, and once it is done a move has been requested for every user
\* outside the primary of every non-primary license of every group,
\* whichever earlier moves or deletes failed.
C13_MoveFailureDoesNotAbort ==
    /\ mpc \in {"fetched", "batch", "process", "done"}
    /\ mpc = "done" =>
          \A d \in Duplicates : \A u \in UniqueUsers(d) :
              <<u, d.primary.key>> \in moveRequests

C13_Witness ==
    /\ mpc = "done"
    /\ \E d \in Duplicates : \E u, v \in UniqueUsers(d) :
          /\ u < v
          /\ <<u, d.primary.key>> \in moveRequests \ moved
          /\ <<v, d.primary.key>> \in moveRequests
    /\ Len(accounts) > 1

WindowSize(r) == r[2] - r[1] + 1

\* C14: for a key space whose size (key_max - key_min + 1) is not divisible
\* by n, all partitions but the last have the same size and the last one is
\* larger than each of them.
C14_LastPartitionAbsorbs ==
    (cpc = "partitioned" /\ (key_max - key_min + 1) % partitions # 0) =>
        /\ Len(ranges) = partitions
        /\ \A i, j \in 1..(partitions - 1) :
              WindowSize(ranges[i]) = WindowSize(ranges[j])
        /\ \A i \in 1..(partitions - 1) :
              WindowSize(ranges[partitions]) > WindowSize(ranges[i])

C14_Witness ==
    /\ cpc = "partitioned"
    /\ partitions = 3
    /\ (key_max - key_min + 1) % partitions = 2
    /\ WindowSize(ranges[1]) = WindowSize(ranges[2])
    /\ WindowSize(ranges[3]) = WindowSize(ranges[1]) + 2

\* C15 as claimed: the key space [0, 999] with n = 4 is cut into
\* [0,249], [250,499], [500,749], [750,999].
C15_QuartersOfThousand ==
    (cpc = "partitioned" /\ key_min = 0 /\ key_max = 999 /\ partitions = 4) =>
        ranges = << <<0, 249>>, <<250, 499>>, <<500, 749>>, <<750, 999>> >>

\* C15 amended: with size = (999 - 0) // 4 = 249 the key space [0, 999] with
\* n = 4 is cut into [0,248], [249,497], [498,746], [747,999].
C15_QuartersAmended ==
    (cpc = "partitioned" /\ key_min = 0 /\ key_max = 999 /\ partitions = 4) =>
        ranges = << <<0, 248>>, <<249, 497>>, <<498, 746>>, <<747, 999>> >>

C15_Witness ==
    /\ cpc = "partitioned"
    /\ key_min = 0 /\ key_max = 999 /\ partitions = 4
    /\ Len(ranges) = 4
    /\ WindowSize(ranges[4]) = 253

\* C16: the coordinator has returned a result or raised an error only when
\* every walker is Exhausted or Failed, also when a walker failed.
C16_ReturnsAfterAllTerminal ==
    cpc \in {"returned", "raised"} => \A i \in Walkers : Terminal(i)

C16_Witness ==
    /\ cpc = "raised"
    /\ \E i, j \in Walkers :
          /\ i < j
          /\ wstate[i] = "Failed"
          /\ wstate[j] = "Exhausted"
          /\ pages[j] # <<>>

\* C17: in both scanners a walker that failed on a 5xx or transport-level
\* error failed with the retries-exhausted error of the backoff policy, that
\* is, only after the retry limit was exceeded.
C17_EveryFetchBackedOff ==
    \A i \in Walkers :
        (wstate[i] = "Failed" /\ lastOutcome[i] = "retryable") =>
            werror[i] = "RetriesExhausted"

\* C18: the account scan exits with code 1 exactly for a count below 1 or
\* above 100, and then no partition has been built and no walker created
\* (so no page request issued); any other count goes on to the scan.
C18_CountValidated ==
    /\ (scanner = "accounts" /\ cpc # "main" /\ (count < 1 \/ count > 100)) =>
          /\ cpc = "exit1"
          /\ ranges = <<>>
          /\ wstate = <<>>
          /\ pages = <<>>
    /\ cpc = "exit1" => (scanner = "accounts" /\ (count < 1 \/ count > 100))

C18_Witness ==
    /\ cpc = "exit1"
    /\ count > 100
    /\ partitions >= 1

\* C19: every batch after the first is entered from a pause: the step in
\* which main calls process_account_licenses for a batch with i > 0 starts
\* where main has just slept SLEEP_BETWEEN_BATCHES.
C19_PauseBetweenBatches ==
    [][(mpc # "process" /\ mpc' = "process" /\ batch_i' > 0) => mpc = "pause"
      ]_vars

\* C20: a walker about to issue its first request has the cursor
\* (window.start, inclusive), and a walker about to issue a later request has
\* the cursor (key of the last record of the previous page, exclusive).
C20_Leapfrog ==
    \A i \in Walkers :
        wstate[i] = "Fetching" =>
            IF pages[i] = <<>>
            THEN current_start_key[i] = ranges[i][1] /\ start_inclusive[i] = TRUE
            ELSE /\ current_start_key[i] = results[i][Len(results[i])]
                 /\ start_inclusive[i] = FALSE

\* C21: every request of a walker has its lower bound inside the walker's
\* window and the upper bound (window.end, exclusive) of the first request,
\* and every record the walker collected lies inside the window.
C21_StaysInWindow ==
    \A i \in Walkers :
        /\ wstate[i] = "Fetching" =>
              /\ ranges[i][1] <= current_start_key[i]
              /\ current_start_key[i] <= ranges[i][2]
              /\ scanner = "accounts" =>
                    scan_key_range_end(i) = [key |-> ranges[i][2],
                                             inclusive |-> FALSE]
        /\ \A p \in 1..Len(results[i]) :
              ranges[i][1] <= results[i][p] /\ results[i][p] <= ranges[i][2]

C21_Witness ==
    \E i \in Walkers :
        /\ partitions >= 2
        /\ ranges[i][1] > MIN_KEY
        /\ wstate[i] = "Fetching"
        /\ Len(pages[i]) >= 1
        /\ current_start_key[i] > ranges[i][1]

\* C22: every call of Backoff.backoff that sleeps is call k <= max_tries, its
\* un-jittered delay is min(initial_delay_ms * 2^(k-1), max_delay_ms) and is
\* not below the delay of the call before, and the slept delay lies within
\* plus or minus 10% of it; with the defaults (100, 30000) the delay is
\* 100 * 2^(k-1) for k <= 9 and 30000 for k = 10, and the slept delay is at
\* most 33000 ms.  (actual_delay is in 1/10000 ms.)
C22_DelayBounds ==
    [][(bpc' = "ready" /\ backoff_tries' # backoff_tries) =>
          LET k == backoff_tries'
              doubled == initial_delay_ms * (2 ^ (k - 1))
              nominal == IF doubled < max_delay_ms THEN doubled ELSE max_delay_ms
          IN  /\ 1 <= k /\ k <= max_tries
              /\ k = backoff_tries + 1
              /\ delay' = nominal
              /\ delay' >= delay
              /\ 9000 * nominal <= actual_delay'
              /\ actual_delay' <= 11000 * nominal
              /\ (initial_delay_ms = 100 /\ max_delay_ms = 30000) =>
                    /\ k <= 9 => delay' = 100 * (2 ^ (k - 1))
                    /\ k = 10 => delay' = 30000
                    /\ actual_delay' <= 33000 * 10000
      ]_vars

C22_Witness ==
    /\ bpc = "ready"
    /\ initial_delay_ms = 100
    /\ max_delay_ms = 30000
    /\ backoff_tries = max_tries
    /\ delay = 30000
    /\ actual_delay = 33000 * 10000

\* C23: a step in which a walker's request fails with a retryable error and
\* the walker goes on to retry leaves the request parameters (cursor, window,
\* count) and the walker's results and pages as they were; the retry counter
\* goes up by one.
C23_RetrySameRequest ==
    [][\A i \in Walkers :
          (wstate[i] = "Fetching" /\ wstate'[i] = "Fetching"
             /\ lastOutcome'[i] = "retryable"
             /\ attempts'[i] = attempts[i] + 1) =>
                /\ current_start_key'[i] = current_start_key[i]
                /\ start_inclusive'[i] = start_inclusive[i]
                /\ ranges' = ranges
                /\ count' = count
                /\ results'[i] = results[i]
                /\ pages'[i] = pages[i]
                /\ tries'[i] = tries[i] + 1
      ]_vars

C23_Witness ==
    \E i \in Walkers :
        /\ scanner = "accounts"
        /\ wstate[i] = "Fetching"
        /\ lastOutcome[i] = "retryable"
        /\ attempts[i] = 2
        /\ results[i] # <<>>
        /\ current_start_key[i] > MIN_KEY

\* C24: the walkers are concurrent units: a walker that has not started can
\* start while all the walkers before it in the list are still fetching (so
\* that, one start after the other, a state with all walkers started and
\* none terminal is reached).
C24_WalkersRunConcurrently ==
    cpc = "gather" =>
        \A i \in Walkers :
            (wstate[i] = "Idle" /\ \A j \in 1..(i - 1) : wstate[j] = "Fetching")
                => ENABLED WalkerStart(i)

RECURSIVE Sum(_)
Sum(s) == IF s = <<>> THEN 0 ELSE Head(s) + Sum(Tail(s))

RECURSIVE Offset(_)
\* the number of records of the walkers before walker i
Offset(i) == IF i <= 1 THEN 0 ELSE Offset(i - 1) + Len(results[i - 1])

\* C25: a walker's output holds as many records as its pages together, in
\* ascending key order (the order they were fetched in), and the list the
\* coordinator returns holds each walker's output as one unbroken block, in
\* the walker's own order.
C25_OrderKept ==
    /\ \A i \in Walkers :
          /\ Len(results[i]) = Sum(pages[i])
          /\ \A p \in 1..(Len(results[i]) - 1) : results[i][p] <= results[i][p + 1]
    /\ cpc = "returned" =>
          /\ Len(cresult) = Offset(Len(ranges) + 1)
          /\ \A i \in Walkers :
                SubSeq(cresult, Offset(i) + 1, Offset(i) + Len(results[i]))
                    = results[i]

C25_Witness ==
    /\ cpc = "returned"
    /\ \E i, j \in Walkers :
          /\ i < j
          /\ results[i] # <<>>
          /\ Len(results[j]) >= 2
          /\ Len(pages[j]) >= 3

\* the enabled licenses of the account of license k
GroupOf(k) ==
    {j \in 1..Len(all_licenses) :
        /\ all_licenses[j].enabled
        /\ all_licenses[j].accountKey = all_licenses[k].accountKey}

\* license k is the first of its group with the largest number of userKeys
IsPrimaryKey(k) ==
    /\ all_licenses[k].enabled
    /\ \A j \in GroupOf(k) :
          \/ Len(all_licenses[j].userKeys) < Len(all_licenses[k].userKeys)
          \/ /\ Len(all_licenses[j].userKeys) = Len(all_licenses[k].userKeys)
             /\ j >= k

\* C27: every delete request targets an enabled, non-primary license of a
\* group of more than one enabled license; every move request targets the
\* primary of such a group and moves a user of another license of the group
\* that is not in the primary.
C27_PrimaryUntouched ==
    /\ \A k \in 1..Len(all_licenses) :
          deleteCalls[k] > 0 =>
              /\ all_licenses[k].enabled
              /\ Cardinality(GroupOf(k)) > 1
              /\ ~IsPrimaryKey(k)
    /\ \A m \in moveRequests :
          /\ m[2] \in 1..Len(all_licenses)
          /\ IsPrimaryKey(m[2])
          /\ Cardinality(GroupOf(m[2])) > 1
          /\ m[1] \notin Elems(all_licenses[m[2]].userKeys)
          /\ \E j \in GroupOf(m[2]) \ {m[2]} :
                m[1] \in Elems(all_licenses[j].userKeys)

C27_Witness ==
    /\ mpc = "done"
    /\ Len(all_licenses) = MaxLicenses
    /\ moveRequests # {}
    /\ \E k \in 1..Len(all_licenses) : deleteCalls[k] > 0
    /\ \E k \in 1..Len(all_licenses) :
          /\ all_licenses[k].userKeys # <<>>
          /\ \/ ~all_licenses[k].enabled
             \/ GroupOf(k) = {k}

\* C28: the retry counter of a walker counts the failed requests of the
\* running page fetch only: a successful page leaves it at 0 for the next
\* page, and the retries-exhausted error is raised only by the request that
\* follows max_tries failed requests of the same page fetch.
C28_RetryBudgetPerPage ==
    [][\A i \in Walkers :
          (scanner = "accounts" /\ wstate[i] = "Fetching") =>
              /\ tries[i] = attempts[i]
              /\ Len(pages'[i]) > Len(pages[i]) => tries'[i] = 0
              /\ werror'[i] = "RetriesExhausted" => attempts[i] = max_tries
      ]_vars

C28_Witness ==
    \E i \in Walkers :
        /\ wstate[i] = "Fetching"
        /\ Len(pages[i]) >= 2
        /\ tries[i] = max_tries

\* the records a request with the walker's cursor would still find
Remaining(i) ==
    Cardinality({k \in dataset :
                    /\ IF start_inclusive[i] THEN current_start_key[i] <= k
                       ELSE current_start_key[i] < k
                    /\ k < ranges[i][2]})

\* what a walker still has ahead of it: the pages for the records left and
\* the retries left for the page it is fetching
Rank(i) ==
    IF Terminal(i) THEN 0
    ELSE IF wstate[i] = "Idle"
    THEN (Cardinality(dataset \cap WindowKeys(i)) + 2) * (max_tries + 2)
    ELSE (Remaining(i) + 1) * (max_tries + 2) - attempts[i]

\* C26: once the coordinator has created the walkers, every walker eventually
\* is Exhausted or Failed; and no walker can go on forever, because every
\* step of a walker lowers its rank (records left to fetch, then retries
\* left), which never goes below zero.
C26_WalkersTerminate ==
    /\ (cpc = "gather") ~> (\A i \in Walkers : Terminal(i))
    /\ [][\A i \in Walkers :
            /\ Rank(i)' >= 0
            /\ Rank(i)' <= Rank(i)
            /\ (wstate'[i] # wstate[i] \/ pages'[i] # pages[i]
                  \/ attempts'[i] # attempts[i]) => Rank(i)' < Rank(i)
        ]_vars

C26_Witness ==
    /\ cpc \in {"returned", "raised"}
    /\ partitions >= 2
    /\ \E i \in Walkers : wstate[i] = "Exhausted" /\ Len(pages[i]) >= 3
    /\ \E i \in Walkers : wstate[i] = "Failed" /\ Len(pages[i]) >= 1

\* C29: with a partition count n <= 0 the scan never returns a result.
C29_NoSuccessWithoutPartitions ==
    partitions <= 0 => cpc # "returned"

\* C30: the shared event_log never holds more than max_events entries, and
\* no popleft() of a trim loop ever finds it empty.
C30_LogBounded ==
    /\ Len(event_log) <= max_events
    /\ empty_pops = {}
=============================================================================
